---- MODULE Spec2Model ----
(***************************************************************************)
(* Generation orchestration core of the image studio.  The repository      *)
(* holds three versions of the App component, each with its own            *)
(* generateImage and archive helpers:                                      *)
(*   variant 1: src/App.tsx lines 1-551                                    *)
(*   variant 2: src/App.tsx lines 553-1255                                 *)
(*   variant 3: src/unnamed/part_000                                       *)
(* The specifications share the variables and the actions:                 *)
(*   Spec         one generateImage invocation over all controls           *)
(*   LiveSpec     Spec with every model call eventually settling           *)
(*   ComposeSpec  one invocation over the prompts and styles               *)
(*   ClassifySpec one invocation of variant 2 over the error messages      *)
(*   SessionSpec  several invocations in one session                       *)
(*   ArchiveSpec  the IndexedDB helpers called on their own                *)
(*   StudioSpec   the history over start-up load, generations and deletes  *)
(* Texts are sequences of tokens (a token is one character of user text or *)
(* one string constant of the source), so that concatenation, trim,        *)
(* replace and includes are computed as the code computes them.            *)
(***************************************************************************)
EXTENDS Integers, Sequences, FiniteSets

\* ---------------------------------------------------------------- bounds
\* number of generateImage invocations in one run
MaxGen == 1
\* largest value Date.now() returns
MaxClock == 2
\* number of times the generate button is pressed in one session
MaxClicks == 2

\* ------------------------------------------------------------- constants
Variants == {1, 2, 3}

HIGH_QUALITY == "imagen-4.0-generate-001"
FAST_REFERENCE == "gemini-2.5-flash-image"
TEXT_MODEL == "gemini-2.5-flash"

\* the tag written to usedModel when the fallback call is made
FallbackModel_Untagged(v) == FAST_REFERENCE
FallbackModel(v) == IF v = 1 THEN "gemini-2.5-flash-image (backup)"
                             ELSE "gemini-2.5-flash-image (fallback)"

SQUARE == <<"1", ":", "1">>
PORTRAIT == <<"3", ":", "4">>
LANDSCAPE == <<"4", ":", "3">>
WIDE_PORTRAIT == <<"9", ":", "16">>
WIDE_LANDSCAPE == <<"16", ":", "9">>
AspectRatio == {SQUARE, PORTRAIT, LANDSCAPE, WIDE_PORTRAIT, WIDE_LANDSCAPE}

QUALITY_MODIFIERS(v) == IF v = 1 THEN <<" . official art, ... unreal engine 5 render">>
                                 ELSE <<" . hyper-maximalist masterpiece, ... global illumination">>

StyleKey == {"FREE", "STICKER"}
STYLES(k) == IF k = "FREE" THEN <<>> ELSE <<" . die-cut sticker, ... isolated on white background">>

\* prompt.length < 30 in variant 2
ShortPromptLength == 30

\* null / undefined of a string-valued state
Null == "null"
Undefined == "undefined"

\* ------------------------------------------------------- string helpers
IsSpace(c) == c = " "

RECURSIVE TrimStart(_)
TrimStart(s) == IF s = <<>> THEN <<>>
                ELSE IF IsSpace(Head(s)) THEN TrimStart(Tail(s)) ELSE s

RECURSIVE TrimEnd(_)
TrimEnd(s) == IF s = <<>> THEN <<>>
              ELSE IF IsSpace(s[Len(s)]) THEN TrimEnd(SubSeq(s, 1, Len(s) - 1)) ELSE s

Trim_Identity(s) == s
\* String.prototype.trim
Trim(s) == TrimEnd(TrimStart(s))

Replace_Nothing(s, pat, rep) == s
\* String.prototype.replace with a string pattern: the first occurrence only
RECURSIVE Replace(_, _, _)
Replace(s, pat, rep) == IF s = <<>> THEN <<>>
                        ELSE IF Head(s) = pat THEN <<rep>> \o Tail(s)
                        ELSE <<Head(s)>> \o Replace(Tail(s), pat, rep)

\* String.prototype.includes for a one-token needle
Includes(s, tok) == \E i \in 1..Len(s) : s[i] = tok

\* Number.prototype.toString, base 10
Digit(d) == CASE d = 0 -> "0" [] d = 1 -> "1" [] d = 2 -> "2" [] d = 3 -> "3"
              [] d = 4 -> "4" [] d = 5 -> "5" [] d = 6 -> "6" [] d = 7 -> "7"
              [] d = 8 -> "8" [] d = 9 -> "9"

RECURSIVE NumberToString(_)
NumberToString(n) == IF n < 10 THEN <<Digit(n)>>
                    ELSE NumberToString(n \div 10) \o <<Digit(n % 10)>>

\* ------------------------------------------------------ prompt composer
\* ` aspect ratio ${aspectRatio.replace(':', ' by ')}` (variant 1, appended)
RatioText(ratio) == <<" aspect ratio ">> \o Replace(ratio, ":", " by ")

\* `Aspect ratio ${aspectRatio.replace(':', ' by ')} . ` (variants 2 and 3, prepended)
RatioPrompt(ratio) == <<"Aspect ratio ">> \o Replace(ratio, ":", " by ") \o <<" . ">>

\* the text sent to the fast capability
FastText(v, final, ratio) == IF v = 1 THEN final \o <<" . ">> \o RatioText(ratio)
                                      ELSE RatioPrompt(ratio) \o final

\* !!referenceImage on the values captured by the handler
HasRef(r) == r.referenceImage # <<>>

\* does generateImage first await enhancePromptAI?
NeedsEnhance(v, r) ==
  CASE v = 1 -> ~r.turbo /\ r.magic
    [] v = 2 -> (r.magic \/ Len(r.prompt) < ShortPromptLength) /\ ~HasRef(r)
    [] v = 3 -> FALSE

\* finalPrompt when no enhancement is awaited
BasePrompt(v, r) == IF v = 3 THEN r.prompt \o STYLES(r.style) \o QUALITY_MODIFIERS(v)
                             ELSE r.prompt \o QUALITY_MODIFIERS(v)

\* ------------------------------------------------------ model selection
UseFlash_IgnoresReference(v, r) == r.turbo
UseFlash(v, r) ==
  CASE v = 1 -> r.turbo \/ HasRef(r)
    [] v = 2 -> LET isSquare == r.ratio = SQUARE
                    forceHqForAspectRatio == ~isSquare /\ ~HasRef(r)
                IN  (r.turbo /\ ~forceHqForAspectRatio) \/ HasRef(r)
    [] v = 3 -> LET isSquare == r.ratio = SQUARE
                    forceHqForQuality == ~HasRef(r) /\ (~r.turbo \/ ~isSquare)
                IN  ~forceHqForQuality \/ HasRef(r)

\* ------------------------------------------------------------ the state
VARIABLES
  variant,          \* which version of the App component runs
  \* React state read by the handlers
  prompt, isTurboMode, isMagicPrompt, aspectRatio, referenceImage,
  activeMode, selectedStyle, userApiKey, envApiKey,
  generatedImages, isGenerating, generationStatus, errorMsg, showSettings,
  \* the IndexedDB object store and the saveImageToDB calls not yet settled
  db, pendingSaves,
  \* last value returned by Date.now()
  now,
  \* the generateImage invocation: position, captured values, locals
  pc, req, finalPrompt, usedModel, newImage,
  \* per-invocation log of what the invocation did
  gens, calls, reports, added, saveCalls, ended,
  \* how many times the generate button is pressed in the run at most
  limit,
  \* the messages of the exceptions the SDK can throw in the run
  thrown,
  \* window.indexedDB as the environment provides it, and the calls made to
  \* the archive helpers, in the order they were made
  indexedDB, ops,
  \* the id of the image shown in the viewer of part_000: <<>> is null
  selectedImageId,
  \* whether the getImagesFromDB() promise of the start-up effect has settled,
  \* and the handleDeleteImage invocations in the order they were called
  loaded, deletes

ui == <<prompt, isTurboMode, isMagicPrompt, aspectRatio, referenceImage,
        activeMode, selectedStyle, userApiKey, envApiKey>>
view == <<generatedImages, isGenerating, generationStatus, errorMsg, showSettings>>
store == <<db, pendingSaves>>
locals == <<pc, req, finalPrompt, usedModel, newImage>>
log == <<gens, calls, reports, added, saveCalls, ended>>
session == <<variant, limit, thrown>>
archive == <<indexedDB, ops>>
handlers == <<loaded, deletes>>
vars == <<session, handlers, selectedImageId, archive, ui, view, store, now, locals, log>>


\* ------------------------------------------------ values of the environment
\* error.message of an exception thrown by the SDK; <<>> is an error without message
ApiErrors == {<<>>, <<"SAFETY">>, <<"429">>, <<"boom">>}

\* the uploaded reference image: { file, preview, base64 }
RefImage == [preview |-> "data:ref-preview", base64 |-> "ref-base64", type |-> "image/png"]

TextPart == [text |-> "caption", inlineData |-> <<>>]
ImagePart == [text |-> "", inlineData |-> <<[mimeType |-> "image/png", data |-> "fast-bytes"]>>]

Pending == [kind |-> "pending", msg |-> <<>>, payload |-> <<>>]
Returned(payload) == [kind |-> "ok", msg |-> <<>>, payload |-> payload]
Threw(msg) == [kind |-> "threw", msg |-> msg, payload |-> <<>>]
Throws == {Threw(m) : m \in thrown}

\* responses of ai.models.generateContent on the text model: response.text
TextResponses == {Returned(<<"enhanced">>), Returned(<<>>), Threw(<<"SAFETY">>), Threw(<<"boom">>)}
\* responses of ai.models.generateContent on the image model: candidates[0].content.parts
FastResponses == {Returned(<<>>), Returned(<<TextPart>>), Returned(<<TextPart, ImagePart>>)}
                   \cup Throws
\* responses of ai.models.generateImages: imageBytes of each generated image
HqResponses == {Returned(<<>>), Returned(<<"">>), Returned(<<"hq-bytes">>)} \cup Throws

\* a record left in the store by an earlier session
OldImage == [id |-> NumberToString(0), url |-> <<"data:", "image/jpeg", ";base64,", "old-bytes">>,
             prompt |-> <<"o">>, aspectRatio |-> SQUARE, model |-> HIGH_QUALITY,
             createdAt |-> 0, referenceImage |-> Undefined]

LongPrompt == [i \in 1..ShortPromptLength |-> "a"]
Prompts == {<<>>, <<" ">>, <<" ", "b">>, LongPrompt}

\* ---------------------------------------------------------------- messages
MissingKeyMessage(v) ==
  IF v = 2 THEN "Configuracao Necessaria: Chave API ausente. Clique na engrenagem para configurar."
           ELSE "Configuracao Necessaria: Chave API ausente."

GenericMessage == "Ocorreu um erro inesperado na comunicacao com a API."
SafetyMessage == "Conteudo bloqueado pelos filtros de seguranca. Tente um prompt diferente."
RateLimitMessage == "Muitas requisicoes. Aguarde alguns segundos."
ApiKeyMessage == "Erro de Chave API: Verifique se sua chave esta correta nas Configuracoes."
FailureMessage == "Falha na geracao. Verifique sua chave API ou simplifique o prompt."

Classify_CredentialFirst(msg) ==
  IF msg = <<>> THEN GenericMessage
  ELSE IF Includes(msg, "403") \/ Includes(msg, "API key") \/ Includes(msg, "401")
          \/ Includes(msg, "fetch failed") THEN ApiKeyMessage
  ELSE IF Includes(msg, "429") THEN RateLimitMessage
  ELSE IF Includes(msg, "SAFETY") THEN SafetyMessage
  ELSE GenericMessage
\* the message the catch block of variant 2 chooses
Classify(msg) ==
  IF msg = <<>> THEN GenericMessage
  ELSE IF Includes(msg, "SAFETY") THEN SafetyMessage
  ELSE IF Includes(msg, "429") THEN RateLimitMessage
  ELSE IF Includes(msg, "403") \/ Includes(msg, "API key") \/ Includes(msg, "401")
          \/ Includes(msg, "fetch failed") THEN ApiKeyMessage
  ELSE GenericMessage

\* what the catch block shows for an error with message msg
ReportText(v, msg) ==
  CASE v = 1 -> <<"Nao foi possivel gerar a imagem. Detalhe: ">>
                   \o (IF msg # <<>> THEN msg ELSE <<"Erro desconhecido">>)
    [] v = 2 -> <<Classify(msg)>>
    [] v = 3 -> <<FailureMessage>>

\* message of the Error the fast branch throws when no part carries inlineData
NoImageError(v) ==
  CASE v = 1 -> <<"O modelo rapido nao retornou imagem. Tente novamente.">>
    [] v = 2 -> <<"O modelo nao retornou dados de imagem.">>
    [] v = 3 -> <<"O modelo nao retornou imagem.">>

\* message of the Error variant 2 throws when the fallback returns no image
FallbackNoImageError ==
  <<"Falha na geracao. Tente simplificar o prompt ou verificar sua chave API.">>

\* --------------------------------------------------------- outbound calls
TextCall(v, input) ==
  [api |-> "generateContent", model |-> TEXT_MODEL,
   text |-> <<IF v = 1 THEN "You are an expert visual director. ... User Request: \""
                         ELSE "Rewrite this image prompt ... Input: \"">> \o input \o <<"\"">>,
   inlineData |-> <<>>, parts |-> <<"text">>, aspectRatio |-> <<>>, numberOfImages |-> 0,
   result |-> Pending]

\* parts = [{ text }]; parts.unshift({ inlineData }) puts the image in front
FastCall(text, inline) ==
  [api |-> "generateContent", model |-> "gemini-2.5-flash-image", text |-> text,
   inlineData |-> inline,
   parts |-> (IF inline # <<>> THEN <<"inlineData">> ELSE <<>>) \o <<"text">>,
   aspectRatio |-> <<>>, numberOfImages |-> 0, result |-> Pending]

HqCall_RatioInText(text, ratio) ==
  [api |-> "generateImages", model |-> "imagen-4.0-generate-001",
   text |-> RatioPrompt(ratio) \o text,
   inlineData |-> <<>>, parts |-> <<>>, aspectRatio |-> <<>>, numberOfImages |-> 1,
   result |-> Pending]
\* generateImages({ model, prompt, config: { numberOfImages: 1, aspectRatio } })
HqCall(text, ratio) ==
  [api |-> "generateImages", model |-> "imagen-4.0-generate-001", text |-> text,
   inlineData |-> <<>>, parts |-> <<>>, aspectRatio |-> ratio, numberOfImages |-> 1,
   result |-> Pending]

\* parts.unshift({inlineData}) of the fast branch
InlineOf(v, r) ==
  IF (IF v = 3 THEN HasRef(r) /\ r.mode = "edit" ELSE HasRef(r))
  THEN <<[data |-> r.referenceImage[1].base64, mimeType |-> r.referenceImage[1].type]>>
  ELSE <<>>

PrimaryCall(v, r, final) ==
  IF UseFlash(v, r) THEN FastCall(FastText(v, final, r.ratio), InlineOf(v, r))
                    ELSE HqCall(final, r.ratio)

FallbackCall_RetriesHq(v, r, final) == HqCall(final, r.ratio)
\* the generateContent request of the catch block after generateImages failed
FallbackCall(v, r, final) == FastCall(FastText(v, final, r.ratio), <<>>)

SetResult(cs, res) == [cs EXCEPT ![Len(cs)].result = res]

\* parts.find(p => p.inlineData)
RECURSIVE FindInline(_)
FindInline(parts) == IF parts = <<>> THEN <<>>
                     ELSE IF Head(parts).inlineData # <<>> THEN Head(parts).inlineData
                     ELSE FindInline(Tail(parts))

DataUrl(mimeType, data) == <<"data:", mimeType, ";base64,", data>>

FirstImageBytes_Empty(images) == ""
\* response.generatedImages?.[0]?.image?.imageBytes, "" when absent
FirstImageBytes(images) == IF images = <<>> THEN "" ELSE Head(images)

EnhancePromptAI_EmptyOnFailure(input, res) == res.payload
\* response.text || inputPrompt, and inputPrompt when the call throws
EnhancePromptAI(input, res) ==
  IF res.kind = "ok" /\ res.payload # <<>> THEN res.payload ELSE input

\* --------------------------------------------------------------- statuses
StartStatus(v, r) ==
  CASE v = 1 -> IF r.turbo THEN "Gerando Ultra Rapido..."
                ELSE IF r.magic THEN "Consultando Personagem..." ELSE "Criando..."
    [] v = 2 -> IF NeedsEnhance(v, r) THEN "Maximizando Complexidade..." ELSE "Inicializando..."
    [] v = 3 -> "Inicializando..."

PrimaryStatus(v, r, cur) ==
  CASE v = 1 -> cur
    [] v = 2 -> IF UseFlash(v, r) THEN "Gerando (Turbo)..."
                ELSE IF r.ratio # SQUARE /\ ~HasRef(r) THEN "Ajustando Formato 9:16/16:9..."
                ELSE "Renderizando Alta Fidelidade..."
    [] v = 3 -> IF UseFlash(v, r) THEN (IF HasRef(r) THEN "Editando Imagem..." ELSE "Gerando (Turbo)...")
                ELSE "Renderizando HQ..."

FallbackStatus(v, cur) ==
  CASE v = 1 -> cur
    [] v = 2 -> "Alternando para Turbo (Fallback)..."
    [] v = 3 -> "Fallback Turbo..."

\* ---------------------------------------------------------------- archive
\* store.put on an object store with keyPath 'id'
Put(store0, image) == {x \in store0 : x.id # image.id} \cup {image}


\* ------------------------------------------------------------------- Init
NoRequest == [prompt |-> <<>>, turbo |-> FALSE, magic |-> FALSE, ratio |-> WIDE_PORTRAIT,
              referenceImage |-> <<>>, mode |-> "create", style |-> "FREE", apiKey |-> ""]

\* what the controls of each variant can hold when the generate button is
\* pressed; a control a variant does not have, or that only changes the text
\* sent, keeps its default
PromptsOf(v) == IF v = 2 THEN Prompts ELSE Prompts \ {LongPrompt}
\* <<userApiKey, process.env.API_KEY>>; variant 1 reads only the environment
KeysOf(v) == IF v = 1 THEN {<<"", "env-key">>}
             ELSE {<<"", "">>, <<"", "env-key">>, <<"user-key", "env-key">>}
\* <<referenceImage, activeMode>>; the edit tab exists in variant 3 only
ReferencesOf(v) == IF v = 3 THEN {<<<<>>, "create">>, <<<<RefImage>>, "create">>, <<<<RefImage>>, "edit">>}
                   ELSE {<<<<>>, "create">>, <<<<RefImage>>, "create">>}

\* the component is mounted and no generateImage invocation has run
Mounted ==
  /\ isGenerating = FALSE
  /\ generationStatus = ""
  /\ errorMsg = Null
  /\ showSettings = FALSE
  /\ pendingSaves = {}
  /\ now = 1
  /\ pc = "idle"
  /\ req = NoRequest
  /\ finalPrompt = <<>>
  /\ usedModel = ""
  /\ newImage = <<>>
  /\ gens = 0
  /\ calls = <<>>
  /\ reports = <<>>
  /\ added = 0
  /\ saveCalls = 0
  /\ ended = "none"

\* The store holds a record of an earlier session, which the start-up effect
\* has loaded into the history.
Init ==
  /\ variant \in Variants
  /\ prompt \in PromptsOf(variant)
  /\ isTurboMode \in BOOLEAN
  /\ isMagicPrompt \in (IF variant = 3 THEN {FALSE} ELSE BOOLEAN)
  /\ aspectRatio \in AspectRatio
  /\ \E ref \in ReferencesOf(variant) : referenceImage = ref[1] /\ activeMode = ref[2]
  /\ selectedStyle = "FREE"
  /\ \E keys \in KeysOf(variant) : userApiKey = keys[1] /\ envApiKey = keys[2]
  /\ db = {OldImage}
  /\ generatedImages = <<OldImage>>
  /\ Mounted
  /\ limit = MaxGen
  /\ thrown = ApiErrors
  /\ loaded = TRUE /\ deletes = <<>>
  /\ selectedImageId = IF variant = 3 THEN <<OldImage.id>> ELSE <<>>
  /\ indexedDB = "ok"
  /\ ops = <<>>

\* ------------------------------------------------------------ generateImage
ApiKey_WithDefault == IF userApiKey # "" THEN userApiKey
                      ELSE IF envApiKey # "" THEN envApiKey ELSE "default-key"
\* userApiKey || process.env.API_KEY
ApiKey == IF userApiKey # "" THEN userApiKey ELSE envApiKey

\* the values of the render the handler closes over
Captured == [prompt |-> prompt, turbo |-> isTurboMode, magic |-> isMagicPrompt,
             ratio |-> aspectRatio, referenceImage |-> referenceImage,
             mode |-> activeMode, style |-> selectedStyle, apiKey |-> ApiKey]

GenerateEnabled_WhileGenerating == gens < limit
\* disabled={isGenerating || ...} of the generate button; the prompt part of
\* the condition is checked again by generateImage itself
GenerateEnabled ==
  ~isGenerating /\ gens < limit

\* finally { setIsGenerating(false); setGenerationStatus('') }
Finally ==
  /\ isGenerating' = FALSE
  /\ generationStatus' = ""
  /\ pc' = "idle"

\* the primary image-model call is issued; cs is the log of calls so far
IssuePrimary(r, final, cs) ==
  /\ finalPrompt' = final
  /\ usedModel' = IF UseFlash(variant, r) THEN FAST_REFERENCE ELSE HIGH_QUALITY
  /\ calls' = Append(cs, PrimaryCall(variant, r, final))
  /\ pc' = IF UseFlash(variant, r) THEN "fast" ELSE "hq"

\* if (!prompt.trim()) return;
GenerateEmptyPrompt ==
  /\ GenerateEnabled
  /\ Trim(prompt) = <<>>
  /\ gens' = gens + 1
  /\ req' = Captured
  /\ calls' = <<>> /\ reports' = <<>> /\ added' = 0 /\ saveCalls' = 0
  /\ ended' = "returned"
  /\ newImage' = <<>>
  /\ UNCHANGED <<session, handlers, selectedImageId, archive, ui, view, store, now, pc, finalPrompt, usedModel>>

\* if (!apiKey) { setErrorMsg(...); setShowSettings(true); return; }
GenerateMissingKey ==
  /\ GenerateEnabled
  /\ Trim(prompt) # <<>>
  /\ variant # 1
  /\ ApiKey = ""
  /\ gens' = gens + 1
  /\ req' = Captured
  /\ errorMsg' = MissingKeyMessage(variant)
  /\ showSettings' = TRUE
  /\ calls' = <<>> /\ added' = 0 /\ saveCalls' = 0
  /\ reports' = <<MissingKeyMessage(variant)>>
  /\ ended' = "nokey"
  /\ newImage' = <<>>
  /\ UNCHANGED <<session, handlers, selectedImageId, archive, ui, generatedImages, isGenerating, generationStatus, store, now,
                 pc, finalPrompt, usedModel>>

\* the handler up to its first await
GenerateStart ==
  /\ GenerateEnabled
  /\ Trim(prompt) # <<>>
  /\ variant = 1 \/ ApiKey # ""
  /\ gens' = gens + 1
  /\ req' = Captured
  /\ isGenerating' = TRUE
  /\ errorMsg' = Null
  /\ reports' = <<>> /\ added' = 0 /\ saveCalls' = 0
  /\ ended' = "none"
  /\ newImage' = <<>>
  /\ IF NeedsEnhance(variant, req')
     THEN /\ finalPrompt' = prompt
          /\ usedModel' = ""
          /\ calls' = <<TextCall(variant, prompt)>>
          /\ pc' = "enhance"
          /\ generationStatus' = StartStatus(variant, req')
     ELSE /\ IssuePrimary(req', BasePrompt(variant, req'), <<>>)
          /\ generationStatus' = PrimaryStatus(variant, req', StartStatus(variant, req'))
  /\ UNCHANGED <<session, handlers, selectedImageId, archive, ui, generatedImages, showSettings, store, now>>

Fail_Silent(msg) ==
  /\ reports' = reports
  /\ errorMsg' = errorMsg
  /\ Finally
  /\ ended' = "error"
  /\ UNCHANGED selectedImageId
\* catch (error) { alert / setErrorMsg } finally { ... }
Fail(msg) ==
  /\ reports' = Append(reports, ReportText(variant, msg))
  /\ errorMsg' = IF variant = 1 THEN errorMsg ELSE ReportText(variant, msg)[1]
  /\ Finally
  /\ ended' = "error"
  /\ UNCHANGED selectedImageId

\* if (imageUrl) is false: nothing is built and nothing is thrown
Nothing ==
  /\ Finally
  /\ ended' = "nothing"
  /\ UNCHANGED <<reports, errorMsg, selectedImageId>>

NewImage_StoresFinalPrompt(r, final, url, model, t1, t2) ==
  [id |-> NumberToString(t1), url |-> url, prompt |-> final,
   aspectRatio |-> r.ratio, model |-> model, createdAt |-> t2,
   referenceImage |-> IF HasRef(r) THEN r.referenceImage[1].preview ELSE Undefined]
\* const newImage: GeneratedImage = {...}; final is the text that was sent, t1
\* and t2 are what the two Date.now() calls return
NewImage(r, final, url, model, t1, t2) ==
  [id |-> NumberToString(t1), url |-> url, prompt |-> r.prompt,
   aspectRatio |-> r.ratio, model |-> model, createdAt |-> t2,
   referenceImage |-> IF HasRef(r) THEN r.referenceImage[1].preview ELSE Undefined]

Prepend_Appends(image, prev) == prev \o <<image>>
\* prev => [newImage, ...prev]
Prepend(image, prev) == <<image>> \o prev

\* if (imageUrl) { newImage = {...}; ... }
Succeed(url) ==
  \E t1 \in now..MaxClock : \E t2 \in t1..MaxClock :
    LET image == NewImage(req, finalPrompt, url, usedModel, t1, t2)
    IN  /\ now' = t2
        /\ newImage' = <<image>>
        /\ pendingSaves' = pendingSaves \cup {[image |-> image, gen |-> gens]}
        /\ saveCalls' = saveCalls + 1
        /\ IF variant = 1
           THEN \* await saveImageToDB(newImage)
                /\ pc' = "save"
                /\ UNCHANGED <<generatedImages, isGenerating, generationStatus, added, ended,
                               selectedImageId>>
           ELSE \* setGeneratedImages(prev => [newImage, ...prev]); saveImageToDB(newImage);
                \* part_000 also calls setSelectedImageId(newImage.id)
                /\ generatedImages' = Prepend(image, generatedImages)
                /\ selectedImageId' = IF variant = 3 THEN <<image.id>> ELSE selectedImageId
                /\ added' = added + 1
                /\ Finally
                /\ ended' = "success"
        /\ UNCHANGED <<reports, errorMsg, db>>

\* enhancePromptAI returns
EnhanceReturn ==
  /\ pc = "enhance"
  /\ \E res \in TextResponses :
       /\ IssuePrimary(req, EnhancePromptAI(req.prompt, res) \o QUALITY_MODIFIERS(variant),
                       SetResult(calls, res))
       /\ generationStatus' = PrimaryStatus(variant, req, generationStatus)
  /\ UNCHANGED <<session, handlers, selectedImageId, archive, ui, generatedImages, isGenerating, errorMsg, showSettings, store, now,
                 req, newImage, gens, reports, added, saveCalls, ended>>

\* the generateContent call of the fast branch returns
FastReturn ==
  /\ pc = "fast"
  /\ \E res \in FastResponses :
       /\ calls' = SetResult(calls, res)
       /\ IF res.kind = "threw"
          THEN Fail(res.msg) /\ UNCHANGED <<generatedImages, store, now, newImage, added, saveCalls>>
          ELSE LET imgPart == FindInline(res.payload)
               IN  IF imgPart # <<>>
                   THEN Succeed(DataUrl(imgPart[1].mimeType, imgPart[1].data))
                   ELSE Fail(NoImageError(variant))
                        /\ UNCHANGED <<generatedImages, store, now, newImage, added, saveCalls>>
  /\ UNCHANGED <<session, handlers, archive, ui, showSettings, req, finalPrompt, usedModel, gens>>

\* the generateImages call returns; its catch issues the fallback call
HqReturn ==
  /\ pc = "hq"
  /\ \E res \in HqResponses :
       LET b64 == IF res.kind = "ok" THEN FirstImageBytes(res.payload) ELSE ""
       IN  IF b64 # ""
           THEN /\ calls' = SetResult(calls, res)
                /\ Succeed(DataUrl("image/jpeg", b64))
                /\ UNCHANGED usedModel
           ELSE /\ calls' = Append(SetResult(calls, res), FallbackCall(variant, req, finalPrompt))
                /\ usedModel' = FallbackModel(variant)
                /\ generationStatus' = FallbackStatus(variant, generationStatus)
                /\ pc' = "fallback"
                /\ UNCHANGED <<generatedImages, isGenerating, errorMsg, store, now, newImage,
                               reports, added, saveCalls, ended, selectedImageId>>
  /\ UNCHANGED <<session, handlers, archive, ui, showSettings, req, finalPrompt, gens>>

\* the generateContent call of the fallback returns
FallbackReturn ==
  /\ pc = "fallback"
  /\ \E res \in FastResponses :
       /\ calls' = SetResult(calls, res)
       /\ IF res.kind = "threw"
          THEN Fail(res.msg) /\ UNCHANGED <<generatedImages, store, now, newImage, added, saveCalls>>
          ELSE LET imgPart == FindInline(res.payload)
               IN  IF imgPart # <<>>
                   THEN Succeed(DataUrl(imgPart[1].mimeType, imgPart[1].data))
                   ELSE IF variant = 2
                        THEN Fail(FallbackNoImageError)
                             /\ UNCHANGED <<generatedImages, store, now, newImage, added, saveCalls>>
                        ELSE Nothing
                             /\ UNCHANGED <<generatedImages, store, now, newImage, added, saveCalls>>
  /\ UNCHANGED <<session, handlers, archive, ui, showSettings, req, finalPrompt, usedModel, gens>>


\* message of request.error when store.put fails
StoreError == <<"QuotaExceededError">>

\* what a saveImageToDB call can come to: initDB resolved null, the put was
\* written, or the put request / its transaction failed
SaveOutcomes == {"unavailable", "written", "failed"}

\* A saveImageToDB call settles.  Variant 1 awaits it inside generateImage and
\* its promise rejects when the put request fails; variants 2 and 3 do not
\* await it and their promise always resolves.
SaveImageToDB ==
  \E e \in pendingSaves : \E outcome \in SaveOutcomes :
    /\ pendingSaves' = pendingSaves \ {e}
    /\ db' = IF outcome = "written" THEN Put(db, e.image) ELSE db
    /\ IF variant = 1
       THEN /\ pc = "save"
            /\ IF outcome = "failed"
               THEN Fail(StoreError) /\ UNCHANGED <<generatedImages, added>>
               ELSE /\ generatedImages' = Prepend(e.image, generatedImages)
                    /\ added' = added + 1
                    /\ Finally
                    /\ ended' = "success"
                    /\ UNCHANGED <<reports, errorMsg, selectedImageId>>
       ELSE UNCHANGED <<view, pc, reports, added, ended, selectedImageId>>
    /\ UNCHANGED <<session, handlers, archive, ui, showSettings, now, req, finalPrompt, usedModel, newImage,
                   gens, calls, saveCalls>>

Next ==
  \/ GenerateEmptyPrompt
  \/ GenerateMissingKey
  \/ GenerateStart
  \/ EnhanceReturn
  \/ FastReturn
  \/ HqReturn
  \/ FallbackReturn
  \/ SaveImageToDB

Spec == Init /\ [][Next]_vars

\* Every outbound model call eventually returns or throws; nothing is
\* supposed of the archive.
LiveSpec ==
  /\ Init /\ [][Next]_vars
  /\ WF_vars(EnhanceReturn) /\ WF_vars(FastReturn)
  /\ WF_vars(HqReturn) /\ WF_vars(FallbackReturn)

\* ------------------------------------------------- prompts and styles
\* the prompt of the example scenario, 17 characters
FoxPrompt == <<"a", " ", "r", "e", "d", " ", "f", "o", "x", " ", "i", "n", " ",
               "s", "n", "o", "w">>

\* One generation from an empty store, over the prompts, the styles of
\* variant 3 and the controls that change the text sent.
ComposeInit ==
  /\ variant \in Variants
  /\ prompt \in {<<" ">>, FoxPrompt, LongPrompt}
  /\ isTurboMode \in BOOLEAN
  /\ isMagicPrompt \in (IF variant = 3 THEN {FALSE} ELSE BOOLEAN)
  /\ aspectRatio \in {SQUARE, WIDE_PORTRAIT}
  /\ \E ref \in ReferencesOf(variant) : referenceImage = ref[1] /\ activeMode = ref[2]
  /\ selectedStyle \in (IF variant = 3 THEN StyleKey ELSE {"FREE"})
  /\ \E keys \in KeysOf(variant) \ {<<"user-key", "env-key">>} :
       userApiKey = keys[1] /\ envApiKey = keys[2]
  /\ db = {}
  /\ generatedImages = <<>>
  /\ Mounted
  /\ limit = MaxGen
  /\ thrown = ApiErrors
  /\ loaded = TRUE /\ deletes = <<>> /\ selectedImageId = <<>>
  /\ indexedDB = "ok"
  /\ ops = <<>>

ComposeSpec == ComposeInit /\ [][Next]_vars

\* ------------------------------------------------------------- a session
\* The generate button is pressed several times in one session, with the
\* controls left as they are; the history starts empty.
SessionInit ==
  /\ variant \in Variants
  /\ prompt \in {<<" ">>, LongPrompt}
  /\ isTurboMode \in BOOLEAN
  /\ isMagicPrompt \in (IF variant = 3 THEN {FALSE} ELSE BOOLEAN)
  /\ aspectRatio = SQUARE
  /\ referenceImage = <<>> /\ activeMode = "create"
  /\ selectedStyle = "FREE"
  /\ \E keys \in KeysOf(variant) \ {<<"user-key", "env-key">>} :
       userApiKey = keys[1] /\ envApiKey = keys[2]
  /\ db = {}
  /\ generatedImages = <<>>
  /\ Mounted
  /\ limit = MaxClicks
  /\ thrown = ApiErrors
  /\ loaded = TRUE /\ deletes = <<>> /\ selectedImageId = <<>>
  /\ indexedDB = "ok"
  /\ ops = <<>>

SessionSpec == SessionInit /\ [][Next]_vars

\* ===================================================== the archive helpers
\* The helpers initDB, saveImageToDB, getImagesFromDB and deleteFromDB, called
\* in any order and overlapping.  Every transaction is on the one object
\* store, so the browser runs them one at a time in the order they were
\* created.

\* number of helper calls in one run
MaxOps == 2

\* window.indexedDB is missing; indexedDB.open fires onerror; indexedDB.open
\* throws; indexedDB.open fires onsuccess
IdbStates == {"missing", "openerror", "throws", "ok"}

InitDB_OnlyChecksSupport(idb) == IF idb = "missing" THEN Null ELSE "IDBDatabase"
\* what the promise of initDB resolves to
InitDB(idb) ==
  CASE idb = "missing" -> Null
    [] idb = "throws" -> Null
    [] idb = "openerror" -> Null
    [] idb = "ok" -> "IDBDatabase"

\* records of earlier generations; the ids are Date.now().toString()
RecA == [id |-> NumberToString(9), url |-> <<"data:", "image/jpeg", ";base64,", "a-bytes">>,
         prompt |-> <<"a">>, aspectRatio |-> SQUARE, model |-> HIGH_QUALITY,
         createdAt |-> 1, referenceImage |-> Undefined]
RecB == [id |-> NumberToString(10), url |-> <<"data:", "image/png", ";base64,", "b-bytes">>,
         prompt |-> <<"b">>, aspectRatio |-> WIDE_PORTRAIT, model |-> FAST_REFERENCE,
         createdAt |-> 2, referenceImage |-> Undefined]
RecC == [id |-> NumberToString(11), url |-> <<"data:", "image/jpeg", ";base64,", "c-bytes">>,
         prompt |-> <<"c">>, aspectRatio |-> SQUARE, model |-> HIGH_QUALITY,
         createdAt |-> 3, referenceImage |-> Undefined]
\* another record under the id of RecB, as late as RecC
RecB2 == [RecB EXCEPT !.url = <<"data:", "image/png", ";base64,", "b2-bytes">>,
                      !.createdAt = 3]

\* the code unit of a digit character
CodeOf(c) == CHOOSE d \in 0..9 : Digit(d) = c

\* the order of string keys in an object store
RECURSIVE KeyLeq(_, _)
KeyLeq(a, b) == IF a = <<>> THEN TRUE
                ELSE IF b = <<>> THEN FALSE
                ELSE IF Head(a) = Head(b) THEN KeyLeq(Tail(a), Tail(b))
                ELSE CodeOf(Head(a)) < CodeOf(Head(b))

\* store.getAll(): the stored records in the order of their keys
RECURSIVE GetAll(_)
GetAll(stored) ==
  IF stored = {} THEN <<>>
  ELSE LET first == CHOOSE x \in stored : \A y \in stored : KeyLeq(x.id, y.id)
       IN  <<first>> \o GetAll(stored \ {first})

Compare_Ascending(a, b) == a.createdAt - b.createdAt
\* (a,b) => b.createdAt - a.createdAt
Compare(a, b) == b.createdAt - a.createdAt

\* x put into a sorted sequence behind every element that does not compare
\* greater than it
RECURSIVE Insert(_, _)
Insert(sorted, x) ==
  IF sorted = <<>> THEN <<x>>
  ELSE IF Compare(Head(sorted), x) > 0 THEN <<x>> \o sorted
  ELSE <<Head(sorted)>> \o Insert(Tail(sorted), x)

\* res.sort(...): Array.prototype.sort, which is stable
RECURSIVE Sort(_)
Sort(res) == IF res = <<>> THEN <<>>
             ELSE Insert(Sort(SubSeq(res, 1, Len(res) - 1)), res[Len(res)])

\* store.delete(id)
Delete(store0, id) == {x \in store0 : x.id # id}

\* a helper is called: its promise is pending and it awaits initDB();
\* `after` holds the calls whose promise had settled by then
NewCall(helper, image, id) ==
  [helper |-> helper, image |-> image, id |-> id, pc |-> "open",
   handle |-> "pending", txn |-> 0, request |-> "pending",
   settled |-> "pending", value |-> "pending", images |-> <<>>,
   after |-> {j \in 1..Len(ops) : ops[j].settled # "pending"},
   stored |-> {}, changed |-> FALSE]

\* the promise of call c settles
Settle(c, how, value, images) ==
  [c EXCEPT !.settled = how, !.value = value, !.images = images]

Generation == <<session, handlers, selectedImageId, ui, view, pendingSaves, now, locals, log>>

SaveImageToDBCalled ==
  /\ Len(ops) < MaxOps
  /\ ops' = Append(ops, NewCall("save", <<RecB2>>, RecB2.id))
  /\ UNCHANGED <<Generation, indexedDB, db>>

GetImagesFromDBCalled ==
  /\ Len(ops) < MaxOps
  /\ ops' = Append(ops, NewCall("get", <<>>, <<>>))
  /\ UNCHANGED <<Generation, indexedDB, db>>

DeleteFromDBCalled ==
  /\ Len(ops) < MaxOps
  /\ \E id \in {RecA.id, RecB.id} : ops' = Append(ops, NewCall("delete", <<>>, id))
  /\ UNCHANGED <<Generation, indexedDB, db>>

\* `const db = await initDB(); if (!db) return ...;` and, with a handle, the
\* statements up to the return: the transaction is created and the request is
\* placed.  deleteFromDB of variants 2 and 3 returns here.
InitDBReturns ==
  \E i \in 1..Len(ops) :
    LET c == ops[i]
        handle == InitDB(indexedDB)
        opened == [c EXCEPT !.handle = handle]
        created == Cardinality({j \in 1..Len(ops) : ops[j].txn > 0})
        queued == [opened EXCEPT !.pc = "txn", !.txn = created + 1]
    IN  /\ c.pc = "open"
        /\ ops' = [ops EXCEPT ![i] =
             IF handle = Null
             THEN Settle([opened EXCEPT !.pc = "done"], "resolved",
                         IF c.helper = "save" THEN "null"
                         ELSE IF c.helper = "get" THEN "images" ELSE "undefined", <<>>)
             ELSE IF c.helper = "delete" /\ variant # 1
                  THEN Settle(queued, "resolved", "undefined", <<>>)
                  ELSE queued]
        /\ UNCHANGED <<Generation, indexedDB, db>>

TransactionReady_AnyOrder(i) == ops[i].pc = "txn"
\* transaction i is the oldest one that has not run
TransactionReady(i) ==
  /\ ops[i].pc = "txn"
  /\ \A j \in 1..Len(ops) : ops[j].pc = "txn" => ops[i].txn <= ops[j].txn

\* what the request of a transaction can come to
RequestOutcomes == {"success", "error"}

\* A transaction runs and its handlers are called: onsuccess / onerror of the
\* request in variant 1, oncomplete / onerror of the transaction for the put
\* of variants 2 and 3, nothing for their delete.
TransactionRuns ==
  \E i \in 1..Len(ops) : \E outcome \in RequestOutcomes :
    LET c == ops[i]
        ok == outcome = "success"
        after == IF ~ok THEN db
                 ELSE IF c.helper = "save" THEN Put(db, c.image[1])
                 ELSE IF c.helper = "delete" THEN Delete(db, c.id)
                 ELSE db
        ran == [c EXCEPT !.pc = "done", !.request = outcome, !.stored = db,
                         !.changed = (after # db)]
    IN  /\ TransactionReady(i)
        /\ db' = after
        /\ ops' = [ops EXCEPT ![i] =
             CASE c.helper = "save" ->
                    IF variant = 1
                    THEN IF ok THEN Settle(ran, "resolved", "key", <<>>)
                               ELSE Settle(ran, "rejected", "error", <<>>)
                    ELSE Settle(ran, "resolved", IF ok THEN "true" ELSE "false", <<>>)
               [] c.helper = "get" ->
                    IF ok THEN Settle(ran, "resolved", "images", Sort(GetAll(db)))
                    ELSE IF variant = 1 THEN Settle(ran, "rejected", "error", <<>>)
                    ELSE Settle(ran, "resolved", "images", <<>>)
               [] c.helper = "delete" ->
                    IF variant # 1 THEN ran
                    ELSE IF ok THEN Settle(ran, "resolved", "true", <<>>)
                    ELSE Settle(ran, "rejected", "error", <<>>)]
        /\ UNCHANGED <<Generation, indexedDB>>

\* The store holds any records of earlier sessions; no generation runs.
ArchiveInit ==
  /\ variant \in Variants
  /\ indexedDB \in IdbStates
  /\ db \in SUBSET {RecA, RecB, RecC}
  /\ ops = <<>>
  /\ prompt = <<>>
  /\ isTurboMode = TRUE /\ isMagicPrompt = FALSE
  /\ aspectRatio = WIDE_PORTRAIT
  /\ referenceImage = <<>> /\ activeMode = "create"
  /\ selectedStyle = "FREE"
  /\ userApiKey = "" /\ envApiKey = "env-key"
  /\ generatedImages = <<>>
  /\ Mounted
  /\ limit = 0
  /\ thrown = ApiErrors
  /\ loaded = TRUE /\ deletes = <<>> /\ selectedImageId = <<>>

ArchiveNext ==
  \/ SaveImageToDBCalled
  \/ GetImagesFromDBCalled
  \/ DeleteFromDBCalled
  \/ InitDBReturns
  \/ TransactionRuns

ArchiveSpec == ArchiveInit /\ [][ArchiveNext]_vars

\* ================================================= the history in a session
\* The start-up effect, the generate button, the viewer of part_000 and the
\* delete buttons, in any interleaving.

\* number of times a button, generate or delete, is pressed in one run; the
\* generate button takes `limit` of them
MaxPresses == 3

\* what the getImagesFromDB() call of the start-up effect can come to: initDB
\* resolved null, getAll succeeded, or the getAll request failed
LoadOutcomes == {"unavailable", "read", "failed"}

\* the array the then-callback of the effect is called with; when the request
\* fails variants 2 and 3 resolve [] and variant 1 rejects, so that the
\* callback is not called at all
LoadedImages(outcome, stored) ==
  IF outcome = "read" THEN Sort(GetAll(stored)) ELSE <<>>

SelectedAfterLoad_Kept(images, selected) == selected
\* setSelectedImageId(images[0].id)
SelectedAfterLoad(images, selected) == <<images[1].id>>

\* images.filter(img => img.id !== id)
Without(images, id) == SelectSeq(images, LAMBDA img : img.id # id)

\* remaining[0]?.id || null
FirstId(remaining) == IF remaining # <<>> THEN <<remaining[1].id>> ELSE <<>>

\* what no action of this section changes
Rest == <<session, archive, ui, isGenerating, generationStatus, errorMsg, showSettings,
          pendingSaves, now, locals, log>>

\* getImagesFromDB().then(images => { if (images.length > 0) ... }): the
\* request is served and the callback runs before any other transaction on
\* the store
Rehydrate ==
  /\ ~loaded
  /\ loaded' = TRUE
  /\ \E outcome \in LoadOutcomes :
       LET images == LoadedImages(outcome, db)
       IN  IF Len(images) > 0
           THEN /\ generatedImages' = images
                /\ selectedImageId' = IF variant = 3
                                      THEN SelectedAfterLoad(images, selectedImageId)
                                      ELSE selectedImageId
           ELSE UNCHANGED <<generatedImages, selectedImageId>>
  /\ UNCHANGED <<deletes, db, Rest>>

\* onClick={() => setSelectedImageId(img.id)} on a thumbnail of part_000
SelectImage ==
  /\ variant = 3
  /\ \E i \in 1..Len(generatedImages) :
       /\ selectedImageId # <<generatedImages[i].id>>
       /\ selectedImageId' = <<generatedImages[i].id>>
  /\ UNCHANGED <<generatedImages, handlers, db, Rest>>

\* the ids a delete button is rendered for: every record of the history in
\* variants 1 and 2, the selected image in part_000
Deletable ==
  LET ids == {generatedImages[i].id : i \in 1..Len(generatedImages)}
  IN  IF variant = 3 THEN {id \in ids : selectedImageId = <<id>>} ELSE ids

\* handleDeleteImage(id) is called and awaits deleteFromDB(id); images and
\* selected are the generatedImages and selectedImageId of the render the
\* handler closes over, which only part_000 reads afterwards
DeleteClicked ==
  /\ Len(deletes) < MaxPresses - limit
  /\ \E id \in Deletable :
       deletes' = Append(deletes,
                    [id |-> id, pc |-> "await",
                     images |-> IF variant = 3 THEN generatedImages ELSE <<>>,
                     selected |-> IF variant = 3 THEN selectedImageId ELSE <<>>])
  /\ UNCHANGED <<generatedImages, selectedImageId, loaded, db, Rest>>

\* what ends the await of deleteFromDB(id): in variant 1 initDB resolving
\* null, or the delete request succeeding or failing; in variants 2 and 3
\* initDB resolving null, or the request being placed
DeleteResumes(v) == IF v = 1 THEN {"unavailable", "deleted", "failed"}
                             ELSE {"unavailable", "placed"}

\* deleteFromDB(id) settles and handleDeleteImage runs to its end; in variant
\* 1 a failed request rejects and the handler ends there
HandleDeleteImageResumes ==
  \E i \in 1..Len(deletes) : \E outcome \in DeleteResumes(variant) :
    LET d == deletes[i]
        remaining == Without(d.images, d.id)
    IN  /\ d.pc = "await"
        /\ deletes' = [deletes EXCEPT ![i] =
                         [id |-> d.id, pc |-> IF outcome = "placed" THEN "request" ELSE "done",
                          images |-> <<>>, selected |-> <<>>]]
        /\ db' = IF outcome = "deleted" THEN Delete(db, d.id) ELSE db
        /\ CASE variant = 1 ->
                  /\ generatedImages' = IF outcome = "failed" THEN generatedImages
                                        ELSE Without(generatedImages, d.id)
                  /\ UNCHANGED selectedImageId
             [] variant = 2 ->
                  /\ generatedImages' = Without(generatedImages, d.id)
                  /\ UNCHANGED selectedImageId
             [] variant = 3 ->
                  /\ generatedImages' = remaining
                  /\ selectedImageId' = IF d.selected = <<d.id>> THEN FirstId(remaining)
                                        ELSE selectedImageId
        /\ UNCHANGED <<loaded, Rest>>

\* the delete request of variants 2 and 3, which nobody waits for, is served
DeleteRequestRuns ==
  \E i \in 1..Len(deletes) : \E outcome \in RequestOutcomes :
    /\ deletes[i].pc = "request"
    /\ deletes' = [deletes EXCEPT ![i].pc = "done"]
    /\ db' = IF outcome = "success" THEN Delete(db, deletes[i].id) ELSE db
    /\ UNCHANGED <<generatedImages, selectedImageId, loaded, Rest>>

\* The store holds a record of an earlier session; the start-up effect has
\* called getImagesFromDB() and the history is still empty.  The controls are
\* set for the fast capability (turbo mode, ratio 1:1, a 30-character prompt,
\* no prompt enhancement, a key in the environment), so that an invocation is
\* GenerateStart, FastReturn and the settling of its saveImageToDB call.
StudioInit ==
  /\ variant \in Variants
  /\ prompt = LongPrompt
  /\ isTurboMode = TRUE
  /\ isMagicPrompt = FALSE
  /\ aspectRatio = SQUARE
  /\ referenceImage = <<>> /\ activeMode = "create"
  /\ selectedStyle = "FREE"
  /\ userApiKey = "" /\ envApiKey = "env-key"
  /\ db = {OldImage}
  /\ generatedImages = <<>>
  /\ Mounted
  /\ limit = MaxGen
  /\ thrown = {<<"boom">>}
  /\ loaded = FALSE /\ deletes = <<>> /\ selectedImageId = <<>>
  /\ indexedDB = "ok"
  /\ ops = <<>>

StudioNext ==
  \/ GenerateStart
  \/ FastReturn
  \/ SaveImageToDB
  \/ Rehydrate
  \/ SelectImage
  \/ DeleteClicked
  \/ HandleDeleteImageResumes
  \/ DeleteRequestRuns

StudioSpec == StudioInit /\ [][StudioNext]_vars

\* ------------------------------------------------ the errors of the SDK
\* the substrings the catch block of variant 2 looks for, and a text it does
\* not look for
Markers == {"SAFETY", "429", "403", "API key", "401", "fetch failed", "boom"}

\* error.message of an exception: absent, or a text holding one or two of the
\* substrings in either order
ErrorMessages ==
  {<<>>} \cup {<<a>> : a \in Markers} \cup {<<a, b>> : a \in Markers, b \in Markers}

\* One generation of variant 2, with ratio 1:1 and no reference image, in
\* which a model call can throw any of the messages.
ClassifyInit ==
  /\ variant = 2
  /\ prompt \in {<<" ">>, LongPrompt}
  /\ isTurboMode \in BOOLEAN
  /\ isMagicPrompt \in BOOLEAN
  /\ aspectRatio = SQUARE
  /\ referenceImage = <<>> /\ activeMode = "create"
  /\ selectedStyle = "FREE"
  /\ \E keys \in {<<"", "">>, <<"", "env-key">>} : userApiKey = keys[1] /\ envApiKey = keys[2]
  /\ db = {}
  /\ generatedImages = <<>>
  /\ Mounted
  /\ limit = 1
  /\ thrown = ErrorMessages
  /\ loaded = TRUE /\ deletes = <<>> /\ selectedImageId = <<>>
  /\ indexedDB = "ok"
  /\ ops = <<>>

ClassifySpec == ClassifyInit /\ [][Next]_vars

TypeOK ==
  /\ variant \in Variants
  /\ pc \in {"idle", "enhance", "fast", "hq", "fallback", "save"}
  /\ ended \in {"none", "returned", "nokey", "success", "error", "nothing"}
  /\ isGenerating \in BOOLEAN
  /\ gens \in 0..limit
  /\ now \in 1..MaxClock
  /\ indexedDB \in IdbStates
  /\ Len(ops) <= MaxOps
  /\ loaded \in BOOLEAN
  /\ Len(deletes) <= MaxPresses
  /\ Len(selectedImageId) <= 1


\* ============================================================== properties
\* the text is empty or holds nothing but white space
IsBlank(text) == \A i \in 1..Len(text) : text[i] = " "
\* the image-model calls of the current invocation, in the order issued
ImageCalls == SelectSeq(calls, LAMBDA c : c.model # TEXT_MODEL)
IsHq(c) == c.api = "generateImages" /\ c.model = HIGH_QUALITY
IsFast(c) == c.api = "generateContent" /\ c.model = FAST_REFERENCE
\* the call came back without a usable image
CallFailed(c) == \/ c.result.kind = "threw"
                 \/ /\ c.result.kind = "ok"
                    /\ IF IsHq(c) THEN FirstImageBytes(c.result.payload) = ""
                                  ELSE FindInline(c.result.payload) = <<>>
\* the last invocation passed the preconditions and has come to its end
Completed == gens > 0 /\ pc = "idle" /\ ended \in {"success", "error", "nothing"}
\* the last invocation passed the preconditions and issued its primary call
PrimaryIssued == gens > 0 /\ ended \notin {"returned", "nokey"} /\ pc # "enhance"

\* C1: with a reference image attached, whatever the turbo flag and the
\* ratio, the invocation issues exactly one image-model call, to the fast
\* capability, and never calls the high-fidelity capability.
C1_ReferenceAlwaysFast ==
  HasRef(req) =>
    /\ \A i \in 1..Len(calls) : ~IsHq(calls[i])
    /\ Len(ImageCalls) <= 1
    /\ PrimaryIssued => Len(ImageCalls) = 1 /\ IsFast(ImageCalls[1])

C1_Witness ==
  /\ HasRef(req) /\ ~req.turbo /\ req.ratio = WIDE_LANDSCAPE
  /\ ended = "success"
  /\ Len(ImageCalls) = 1 /\ IsFast(ImageCalls[1])

\* C2 (as claimed): without a reference image the primary capability is
\* high-fidelity in high-fidelity mode, fast in turbo mode with ratio 1:1,
\* and high-fidelity in turbo mode with any other ratio, in every variant.
C2_PrimaryByModeAndRatio ==
  (PrimaryIssued /\ ~HasRef(req)) =>
    LET primary == ImageCalls[1]
    IN  IF req.turbo /\ req.ratio = SQUARE THEN IsFast(primary) ELSE IsHq(primary)

\* C3 (as claimed): an invocation that passed the preconditions ends either
\* with one record added to the history and no error reported, or with exactly
\* one error reported and no record; never neither, never both.
C3_RecordOrOneError ==
  Completed => \/ added = 1 /\ Len(reports) = 0
               \/ added = 0 /\ Len(reports) = 1

\* the saveImageToDB call of the last invocation has settled without writing
ArchiveFailed ==
  /\ newImage # <<>> /\ saveCalls = 1
  /\ \A e \in pendingSaves : e.gen # gens
  /\ newImage[1] \notin db

\* C4 (as claimed): when the archive is unavailable or its put fails, the
\* freshly generated record is still added to the history and no error is
\* reported.
C4_ArchiveNeverFailsGeneration ==
  ArchiveFailed => /\ added = 1
                   /\ generatedImages # <<>> /\ Head(generatedImages) = newImage[1]
                   /\ reports = <<>>
                   /\ ended = "success"

IsPolicyOrRateLimit(msg) == Includes(msg, "SAFETY") \/ Includes(msg, "429")

\* C5 (as claimed): an image-model call that fails with a content-policy or a
\* rate-limit error is the last model call of its invocation, and that
\* classified error is what the caller is shown.
C5_NoRetryAfterSafetyOrRateLimit ==
  \A i \in 1..Len(calls) :
    (calls[i].model # TEXT_MODEL /\ calls[i].result.kind = "threw"
       /\ IsPolicyOrRateLimit(calls[i].result.msg)) =>
         /\ i = Len(calls)
         /\ pc = "idle" => reports = <<<<Classify(calls[i].result.msg)>>>>

\* C6: the model field of a record built by an invocation names what
\* produced the image: the high-fidelity identifier exactly when the
\* high-fidelity call returned it, the fast identifier exactly when the fast
\* capability was the primary call, and a fallback tag different from both
\* exactly when the fallback call returned it.
C6_ModelFieldNamesProducer ==
  (newImage # <<>> /\ gens > 0) =>
    LET m == newImage[1].model
        ic == ImageCalls
        last == ic[Len(ic)]
    IN  /\ ~CallFailed(last) /\ last.result.kind = "ok"
        /\ m = HIGH_QUALITY <=> (Len(ic) = 1 /\ IsHq(last))
        /\ m = FAST_REFERENCE <=> (Len(ic) = 1 /\ IsFast(last))
        /\ m \notin {HIGH_QUALITY, FAST_REFERENCE}
             <=> (Len(ic) = 2 /\ IsHq(ic[1]) /\ CallFailed(ic[1]) /\ IsFast(last))
        /\ m \in {HIGH_QUALITY, FAST_REFERENCE, "gemini-2.5-flash-image (backup)",
                  "gemini-2.5-flash-image (fallback)"}

C6_Witness ==
  /\ ended = "success" /\ newImage # <<>>
  /\ newImage[1].model \notin {HIGH_QUALITY, FAST_REFERENCE}
  /\ Len(ImageCalls) = 2

\* C7 (as claimed): an invocation that passed the preconditions issues one or
\* two outbound calls in total: one when only the primary capability is
\* called, two when the high-fidelity call failed.
C7_OneOrTwoCallsInTotal ==
  Completed => /\ Len(calls) \in {1, 2}
               /\ Len(calls) = 2 <=> (IsHq(calls[1]) /\ CallFailed(calls[1]))

\* C7 (amended): the invocation issues one or two image-model calls: one when
\* only the primary capability is called, two (high-fidelity, then the fast
\* fallback) exactly when the high-fidelity call failed; before them it issues
\* at most one prompt-enhancement call to the text model, so never more than
\* three outbound calls in total.
C7_OneOrTwoImageCalls ==
  /\ Len(calls) <= 3
  /\ Len(calls) - Len(ImageCalls) <= 1
  /\ \A i \in 2..Len(calls) : calls[i].model # TEXT_MODEL
  /\ Completed =>
       LET ic == ImageCalls
       IN  /\ Len(ic) \in {1, 2}
           /\ Len(ic) = 2 <=> (IsHq(ic[1]) /\ CallFailed(ic[1]))
           /\ Len(ic) = 2 => IsFast(ic[2])

C7_Witness == Completed /\ Len(calls) = 3 /\ Len(ImageCalls) = 2 /\ ended = "success"

\* C8 (as claimed): an invocation performs exactly one archive put when it
\* ends in success and none when it ends in failure, and a failed invocation
\* leaves the history and the archive as they were.
C8_OnePutOnSuccessNoneOnFailure ==
  /\ ended = "success" => saveCalls = 1
  /\ (Completed /\ ended # "success") => saveCalls = 0 /\ added = 0

\* C9: in variants 2 and 3, with a non-empty prompt and neither a saved key
\* nor an environment key, generateImage sets the missing-key message, issues
\* no call, writes nothing to the archive and never sets isGenerating.
C9_MissingCredentialRejected ==
  (variant \in {2, 3} /\ gens > 0 /\ ~IsBlank(req.prompt)
     /\ userApiKey = "" /\ envApiKey = "") =>
    /\ ended = "nokey"
    /\ errorMsg = MissingKeyMessage(variant) /\ reports = <<MissingKeyMessage(variant)>>
    /\ calls = <<>> /\ saveCalls = 0 /\ pendingSaves = {}
    /\ ~isGenerating /\ pc = "idle" /\ added = 0

C9_Witness ==
  /\ variant = 3 /\ gens > 0 /\ req.prompt = <<" ", "b">>
  /\ userApiKey = "" /\ envApiKey = "" /\ ended = "nokey" /\ showSettings

\* C10 (as claimed): an empty or whitespace-only prompt is rejected before
\* any call, changes nothing, and the rejection is reported to the caller.
C10_EmptyPromptReported ==
  (gens > 0 /\ IsBlank(req.prompt)) =>
    /\ calls = <<>> /\ saveCalls = 0 /\ added = 0 /\ ~isGenerating
    /\ reports # <<>> \/ errorMsg # Null

\* C10 (amended): for an empty or whitespace-only prompt generateImage
\* returns before any call: no network call, no archive write, no change to
\* isGenerating or the history; nothing is reported: no message is set or
\* shown and the settings dialog is not opened.
C10_EmptyPromptReturnsSilently ==
  (gens > 0 /\ IsBlank(req.prompt)) =>
    /\ ended = "returned"
    /\ calls = <<>> /\ saveCalls = 0 /\ pendingSaves = {}
    /\ added = 0 /\ ~isGenerating /\ pc = "idle"
    /\ reports = <<>> /\ errorMsg = Null /\ ~showSettings

C10_Witness == gens > 0 /\ req.prompt = <<" ">> /\ ended = "returned"

\* ---------------------------------------------------------------------
\* the request is in fast mode, without reference image, with ratio 1:1
FastSquareRequest == PrimaryIssued /\ req.turbo /\ ~HasRef(req) /\ req.ratio = SQUARE

\* C11 (as claimed): in fast mode, without reference image and with ratio
\* 1:1, generateImage issues exactly one outbound call, to the fast
\* capability, whose text is the user prompt followed by the quality suffix;
\* on success the record holds the user prompt and the ratio 1:1.
C11_OneFastCallPromptThenSuffix ==
  FastSquareRequest =>
    /\ Len(calls) = 1 /\ IsFast(calls[1])
    /\ calls[1].text = req.prompt \o QUALITY_MODIFIERS(variant)
    /\ ended = "success" =>
         newImage[1].prompt = req.prompt /\ newImage[1].aspectRatio = SQUARE

\* the text a settled prompt-enhancement call hands back for input
EnhancedOr(input, c) ==
  IF c.result.kind = "ok" /\ c.result.payload # <<>> THEN c.result.payload ELSE input

\* C11 (amended): in fast mode, without reference image and with ratio 1:1,
\* generateImage issues exactly one image-model call, to the fast capability
\* and without inline image.  Its text is the user prompt, then the style
\* text (variant 3), then the quality suffix, with the ratio hint
\* " .  aspect ratio 1 by 1" after it in variant 1 and "Aspect ratio 1 by 1 . "
\* before it in variants 2 and 3.  In variant 2, when the magic flag is set
\* or the prompt is shorter than 30 characters, a prompt-enhancement call
\* comes first (two outbound calls) and its text, when not empty, takes the
\* place of the user prompt.  On success the record holds the user prompt
\* and the ratio 1:1.
C11_OneFastCallWithRatioHint ==
  FastSquareRequest =>
    LET enhances == variant = 2 /\ (req.magic \/ Len(req.prompt) < 30)
        image == calls[Len(calls)]
        base == IF enhances THEN EnhancedOr(req.prompt, calls[1]) ELSE req.prompt
        body == base \o (IF variant = 3 THEN STYLES(req.style) ELSE <<>>)
                     \o QUALITY_MODIFIERS(variant)
    IN  /\ Len(calls) = IF enhances THEN 2 ELSE 1
        /\ enhances => calls[1].model = TEXT_MODEL /\ calls[1].result.kind # "pending"
        /\ IsFast(image) /\ image.inlineData = <<>>
        /\ image.text = IF variant = 1
                         THEN body \o <<" . ", " aspect ratio ", "1", " by ", "1">>
                         ELSE <<"Aspect ratio ", "1", " by ", "1", " . ">> \o body
        /\ ended = "success" =>
             newImage[1].prompt = req.prompt /\ newImage[1].aspectRatio = SQUARE

C11_Witness ==
  /\ FastSquareRequest /\ variant = 2 /\ req.prompt = FoxPrompt /\ ~req.magic
  /\ Len(calls) = 2 /\ calls[1].result = Returned(<<"enhanced">>)
  /\ ended = "success" /\ newImage[1].prompt = FoxPrompt

\* C12: the record built on success holds the prompt exactly as entered,
\* never the enhanced text and never the style, suffix or ratio additions;
\* its aspectRatio is the requested ratio; its referenceImage is the preview
\* of the attached reference image, and undefined when none is attached.
C12_RecordKeepsRawRequest ==
  newImage # <<>> =>
    LET image == newImage[1]
    IN  /\ image.prompt = prompt
        /\ image.aspectRatio = aspectRatio
        /\ referenceImage # <<>> => image.referenceImage = referenceImage[1].preview
        /\ referenceImage = <<>> => image.referenceImage = Undefined

C12_Witness ==
  /\ variant = 1 /\ ended = "success" /\ HasRef(req)
  /\ calls[1].model = TEXT_MODEL /\ calls[1].result = Returned(<<"enhanced">>)
  /\ finalPrompt # prompt \o QUALITY_MODIFIERS(1)
  /\ newImage[1].prompt = FoxPrompt
  /\ newImage[1].referenceImage = RefImage.preview

\* C13: enhancePromptAI hands back its input unchanged when the text call
\* throws, whatever the error, and when it returns empty text; it never
\* throws: nothing is reported for it and the image-model call follows.
C13_EnhanceFallsBackToInput ==
  (calls # <<>> /\ calls[1].model = TEXT_MODEL) =>
    LET c == calls[1]
    IN  /\ c.result.kind = "pending" => Len(calls) = 1 /\ reports = <<>> /\ pc = "enhance"
        /\ c.result.kind # "pending" =>
             /\ Len(calls) >= 2 /\ calls[2].model # TEXT_MODEL
             /\ (c.result.kind = "threw" \/ c.result.payload = <<>>)
                  => finalPrompt = req.prompt \o QUALITY_MODIFIERS(variant)
             /\ (c.result.kind = "ok" /\ c.result.payload # <<>>)
                  => finalPrompt = c.result.payload \o QUALITY_MODIFIERS(variant)
             /\ Len(calls) = 2 /\ pc # "idle" => reports = <<>>

C13_Witness ==
  /\ calls # <<>> /\ calls[1].model = TEXT_MODEL
  /\ calls[1].result = Threw(<<"boom">>)
  /\ Len(calls) = 2 /\ ended = "success"
  /\ finalPrompt = req.prompt \o QUALITY_MODIFIERS(variant)

\* the generateImages call threw, or returned no image or an image without bytes
HqCameBackEmpty(c) ==
  \/ c.result.kind = "threw"
  \/ c.result.kind = "ok" /\ (c.result.payload = <<>> \/ c.result.payload[1] = "")

\* the generateContent call threw, or returned no part with inline data
FastCameBackWithoutImage(c) ==
  \/ c.result.kind = "threw"
  \/ /\ c.result.kind = "ok"
     /\ \A i \in 1..Len(c.result.payload) : c.result.payload[i].inlineData = <<>>

\* C14: no call is issued while an earlier call of the invocation is in
\* flight; the fallback call is issued only after the high-fidelity call has
\* thrown or returned empty; saveImageToDB is called only after a model call
\* of the invocation has returned an image and the record holding that image
\* has been built.
C14_FallbackAfterFailurePutAfterRecord ==
  /\ \A i \in 1..(Len(calls) - 1) : calls[i].result.kind # "pending"
  /\ LET ic == ImageCalls
     IN  Len(ic) >= 2 => Len(ic) = 2 /\ IsHq(ic[1]) /\ HqCameBackEmpty(ic[1]) /\ IsFast(ic[2])
  /\ saveCalls > 0 =>
       /\ calls # <<>> /\ calls[Len(calls)].result.kind = "ok"
       /\ newImage # <<>> /\ newImage[1].url[4] # ""
       /\ newImage[1].url[4] \in {"hq-bytes", "fast-bytes"}
       /\ IsHq(calls[Len(calls)]) => newImage[1].url[4] = calls[Len(calls)].result.payload[1]
  /\ \A e \in pendingSaves : e.gen = gens => newImage = <<e.image>> /\ saveCalls = 1
  /\ saveCalls = 0 => \A e \in pendingSaves : e.gen # gens

C14_Witness ==
  /\ Len(ImageCalls) = 2 /\ ImageCalls[1].result = Returned(<<"">>)
  /\ ended = "success" /\ saveCalls = 1 /\ newImage[1] \in db

\* C15: when the fast capability is the primary call and it throws or
\* returns no inline image part, that call is the last call of the
\* invocation and its only image-model call, exactly one error is reported,
\* and nothing is added to the history or handed to the archive.
C15_FastOnlyFailureIsFinal ==
  (PrimaryIssued /\ IsFast(ImageCalls[1]) /\ FastCameBackWithoutImage(ImageCalls[1])) =>
    /\ Len(ImageCalls) = 1 /\ calls[Len(calls)] = ImageCalls[1]
    /\ pc = "idle" /\ ~isGenerating /\ ended = "error"
    /\ Len(reports) = 1
    /\ variant # 1 => errorMsg = reports[1][1]
    /\ added = 0 /\ saveCalls = 0 /\ newImage = <<>>
    /\ \A e \in pendingSaves : e.gen # gens

C15_Witness ==
  /\ PrimaryIssued /\ HasRef(req) /\ ~req.turbo
  /\ ImageCalls[1].result = Returned(<<TextPart>>)
  /\ ended = "error" /\ Len(reports) = 1

\* no two records of the history share an id (the object store, keyed by
\* id, cannot hold two)
HistoryIdsDistinct ==
  \A i, j \in 1..Len(generatedImages) :
    i # j => generatedImages[i].id # generatedImages[j].id

\* a stored record stays as it is, or no record with its id is left
StoredOnlyDeleted ==
  \A x \in db : x \in db' \/ \A y \in db' : y.id # x.id

\* C16 (as claimed): over any sequence of successful generations no two
\* records of the history share an id, and a put never replaces a record
\* that is already stored.
C16_IdsUniqueNeverOverwritten == []HistoryIdsDistinct /\ [][StoredOnlyDeleted]_vars

\* C20: while a generateImage invocation is in flight the generate button is
\* disabled, and an invocation starts only when none is in flight.
C20_OneGenerationInFlight ==
  /\ [](pc # "idle" => isGenerating)
  /\ [][gens' # gens => (pc = "idle" /\ ~isGenerating)]_vars

C20_Witness == gens = 2 /\ pc = "fallback" /\ isGenerating /\ generatedImages # <<>>

\* ------------------------------------------------------------ the archive
Calls(helper) == {i \in 1..Len(ops) : ops[i].helper = helper}
\* no other call saves or deletes under the id of call i
OnlyCallOn(i) ==
  \A k \in Calls("save") \cup Calls("delete") : k # i => ops[k].id # ops[i].id
Holds(images, id) == \E n \in 1..Len(images) : images[n].id = id

\* deleteFromDB of an id that is not stored changes nothing
AbsentDeleteChangesNothing ==
  \A d \in Calls("delete") :
    (ops[d].request # "pending" /\ \A x \in ops[d].stored : x.id # ops[d].id)
      => ~ops[d].changed

C18_NewestFirstEveryRecordOnce ==
  \A g \in Calls("get") : ops[g].request = "success" =>
    LET images == ops[g].images
    IN  /\ ops[g].settled = "resolved"
        /\ {images[n] : n \in 1..Len(images)} = ops[g].stored
        /\ Len(images) = Cardinality(ops[g].stored)
        /\ \A m, n \in 1..Len(images) : m < n => images[m].createdAt >= images[n].createdAt
        /\ ops[g].stored = {RecA, RecB, RecC} => images = <<RecC, RecB, RecA>>

C18_Witness ==
  \E g \in Calls("get") :
    /\ ops[g].stored = {RecA, RecB, RecC}
    /\ GetAll(ops[g].stored) = <<RecB, RecC, RecA>>
    /\ ops[g].images = <<RecC, RecB, RecA>>

\* C19: when window.indexedDB is missing, the open request errors or opening
\* throws, initDB resolves to null, saveImageToDB resolves to null and
\* deleteFromDB to undefined without any transaction, getImagesFromDB
\* resolves to an empty array, and no promise is rejected.
C19_UnavailableStoreIsNoOp ==
  indexedDB # "ok" =>
    \A i \in 1..Len(ops) :
      LET c == ops[i]
      IN  /\ c.handle \in {"pending", Null}
          /\ c.settled # "rejected"
          /\ c.txn = 0 /\ c.request = "pending" /\ ~c.changed
          /\ c.handle = Null =>
               /\ c.settled = "resolved" /\ c.pc = "done"
               /\ c.helper = "save" => c.value = "null"
               /\ c.helper = "get" => c.value = "images" /\ c.images = <<>>
               /\ c.helper = "delete" => c.value = "undefined"

C19_Witness ==
  /\ indexedDB = "openerror" /\ db = {RecA, RecB, RecC} /\ Len(ops) = 2
  /\ ops[1].helper = "delete" /\ ops[1].id = RecA.id /\ ops[1].settled = "resolved"
  /\ ops[2].helper = "get" /\ ops[2].settled = "resolved" /\ ops[2].images = <<>>

\* ------------------------------------------------------------- failures
\* the messages the catch blocks choose among
ClassifiedMessages ==
  {GenericMessage, SafetyMessage, RateLimitMessage, ApiKeyMessage, FailureMessage}

\* the invocation has ended on an exception of its last image-model call
EndedOnThrow ==
  /\ pc = "idle" /\ ended = "error" /\ calls # <<>>
  /\ calls[Len(calls)].model # TEXT_MODEL /\ calls[Len(calls)].result.kind = "threw"

\* C21 (as claimed): in every variant an exception of a model call is caught
\* inside generateImage and the caller is shown one of the classified
\* messages; no part of the exception's own message is shown.
C21_RawErrorTextNeverShown ==
  EndedOnThrow =>
    LET msg == calls[Len(calls)].result.msg
    IN  /\ Len(reports) = 1
        /\ Len(reports[1]) = 1 /\ reports[1][1] \in ClassifiedMessages
        /\ \A k \in 1..Len(reports[1]) : ~Includes(msg, reports[1][k])

\* the text is text0 with the ratio hint for ratio put after or before it
WithRatioHint(text, text0, ratio) ==
  \/ text = text0 \o <<" . ", " aspect ratio ", ratio[1], " by ", ratio[3]>>
  \/ text = <<"Aspect ratio ", ratio[1], " by ", ratio[3], " . ">> \o text0

\* after a failed high-fidelity call, exactly one call follows: to the fast
\* capability, with the text sent to the high-fidelity capability plus the
\* ratio hint, and without inline image
OneFallbackCall ==
  \A i \in 1..Len(calls) :
    (IsHq(calls[i]) /\ HqCameBackEmpty(calls[i])) =>
      /\ Len(calls) = i + 1
      /\ IsFast(calls[i + 1]) /\ calls[i + 1].inlineData = <<>>
      /\ WithRatioHint(calls[i + 1].text, calls[i].text, req.ratio)

\* a fallback call that failed ends the invocation with one reported error
FailedFallbackIsReported ==
  (Len(ImageCalls) = 2 /\ FastCameBackWithoutImage(ImageCalls[2])) =>
    /\ pc = "idle" /\ ended = "error"
    /\ Len(reports) = 1
    /\ added = 0 /\ saveCalls = 0

\* C22 (as claimed): after the high-fidelity call fails, generateImage issues
\* exactly one fallback call, to the fast capability, whose text is the
\* composed prompt sent to the high-fidelity capability plus the ratio hint,
\* with no reference image; if that call fails too, no further call is made
\* and the invocation ends with a reported error.
C22_OneFallbackThenFinalError == OneFallbackCall /\ FailedFallbackIsReported

\* the text holds the substring
Has(msg, sub) == \E k \in 1..Len(msg) : msg[k] = sub

\* C23: in variant 2 the message shown is chosen by first match on the
\* message of the error that ended the invocation: 'SAFETY' gives the
\* content-policy message; otherwise '429' the rate-limit message; otherwise
\* '403', 'API key', '401' or 'fetch failed' the credential message; every
\* other error, one without message and one thrown for a response without
\* image included, the generic message.  After a fallback call the error is
\* the fallback's, not the high-fidelity call's.
C23_FirstMatchOnFinalError ==
  (variant = 2 /\ pc = "idle" /\ ended = "error" /\ calls # <<>>) =>
    LET last == calls[Len(calls)]
        msg == IF last.result.kind = "threw" THEN last.result.msg ELSE <<>>
        expected ==
          IF Has(msg, "SAFETY") THEN SafetyMessage
          ELSE IF Has(msg, "429") THEN RateLimitMessage
          ELSE IF Has(msg, "403") \/ Has(msg, "API key") \/ Has(msg, "401")
                  \/ Has(msg, "fetch failed") THEN ApiKeyMessage
          ELSE GenericMessage
    IN  /\ last.model # TEXT_MODEL /\ last.result.kind # "pending"
        /\ errorMsg = expected
        /\ reports = <<<<expected>>>>

C23_Witness ==
  /\ variant = 2 /\ pc = "idle" /\ ended = "error"
  /\ Len(ImageCalls) = 2
  /\ ImageCalls[1].result = Threw(<<"SAFETY">>)
  /\ ImageCalls[2].result = Threw(<<"403", "429">>)
  /\ errorMsg = RateLimitMessage

\* ------------------------------------------------------------- requests
\* the text holds a ratio hint
HoldsRatioHint(text) == Has(text, "Aspect ratio ") \/ Has(text, " aspect ratio ")

\* C24: every request to the high-fidelity capability carries the composed
\* text without ratio hint, the selected ratio as structured aspectRatio and
\* a count of exactly 1; a ratio hint appears only in the text of requests to
\* the fast capability, which carry no structured ratio.
C24_HqRequestShape ==
  \A i \in 1..Len(calls) :
    LET c == calls[i]
    IN  /\ IsHq(c) => /\ c.text = finalPrompt /\ ~HoldsRatioHint(c.text)
                      /\ c.aspectRatio = aspectRatio
                      /\ c.numberOfImages = 1
                      /\ c.inlineData = <<>> /\ c.parts = <<>>
        /\ HoldsRatioHint(c.text) => IsFast(c)
        /\ ~IsHq(c) => c.aspectRatio = <<>>

C24_Witness ==
  /\ variant = 3 /\ req.turbo /\ aspectRatio = WIDE_LANDSCAPE
  /\ Len(calls) = 2 /\ IsHq(calls[1]) /\ calls[1].aspectRatio = <<"16", ":", "9">>
  /\ calls[1].result = Threw(<<"429">>)
  /\ IsFast(calls[2]) /\ HoldsRatioHint(calls[2].text)
  /\ ended = "success"

\* the fast request carries the reference image in front of its text
SendsReference(c) ==
  /\ c.inlineData = <<[data |-> RefImage.base64, mimeType |-> RefImage.type]>>
  /\ c.parts = <<"inlineData", "text">>

\* C27 (as claimed): in every variant and UI mode, with a reference image
\* attached the request to the fast capability holds that image as an inline
\* part before the text part, and a record carries a referenceImage preview
\* only if the image was sent to the model in that generation.
C27_ReferenceSentWhenAttached ==
  /\ (PrimaryIssued /\ referenceImage # <<>>) =>
       IsFast(ImageCalls[1]) /\ SendsReference(ImageCalls[1])
  /\ (newImage # <<>> /\ newImage[1].referenceImage # Undefined) =>
       /\ newImage[1].referenceImage = RefImage.preview
       /\ SendsReference(calls[Len(calls)])

\* ---------------------------------------------------------- termination
\* the record of the invocation is built, and is in the history
RecordBuiltIsInHistory ==
  (gens > 0 /\ newImage # <<>>) =>
    /\ added = 1
    /\ generatedImages # <<>> /\ Head(generatedImages) = newImage[1]

\* C28 (as claimed): when every model call eventually returns or throws,
\* every started invocation eventually completes; when it has completed,
\* isGenerating is false and the status text is empty; and on success the
\* record is in the history without waiting for the archive.
C28_EveryInvocationCompletes ==
  /\ isGenerating ~> ~isGenerating
  /\ [](Completed => ~isGenerating /\ generationStatus = "")
  /\ []RecordBuiltIsInHistory

\* ------------------------------------------------------------ the history
\* the records of a history
Records(images) == {images[k] : k \in 1..Len(images)}
\* how many times the history holds the record
Count(images, x) == Cardinality({k \in 1..Len(images) : images[k] = x})
\* the record the last invocation has prepended to the history
Placed == IF added = 1 /\ newImage # <<>> THEN {newImage[1]} ELSE {}
\* no handleDeleteImage invocation goes on in the step
NoDeleteResumes == \A i \in 1..Len(deletes) : deletes'[i].pc = deletes[i].pc

\* C25 (as claimed): a record that a generation has prepended to the history
\* stays in the history exactly once through every step that is not the
\* continuation of a delete: the result of the start-up getImagesFromDB()
\* neither removes nor duplicates it, however it interleaves with the
\* completion of the generation and with the archive put.
C25_StartupLoadKeepsGeneratedRecords ==
  [][\A x \in Placed :
       (Count(generatedImages, x) = 1 /\ NoDeleteResumes) => Count(generatedImages', x) = 1]_vars

\* C26 (as claimed): in part_000, the step in which handleDeleteImage(id)
\* goes on after its await removes exactly the records with that id from the
\* history as it is at that moment: every other record stays and no record
\* absent before the step is present after it.
C26_DeleteRemovesExactlyItsRecord ==
  [][\A i \in 1..Len(deletes) :
       (variant = 3 /\ deletes[i].pc = "await" /\ deletes'[i].pc # "await") =>
         /\ \A x \in Records(generatedImages) :
              x.id # deletes[i].id => x \in Records(generatedImages')
         /\ \A x \in Records(generatedImages') :
              x \in Records(generatedImages) /\ x.id # deletes[i].id]_vars

\* createdAt does not increase from head to tail
NewestFirst(images) ==
  \A m, n \in 1..Len(images) : m < n => images[m].createdAt >= images[n].createdAt

\* C29: in every reachable state the history is ordered newest first, over
\* the start-up load, successful generations and deletes, with a clock that
\* never goes backwards.
C29_HistoryNewestFirst == NewestFirst(generatedImages)

C29_Witness ==
  /\ loaded /\ added = 1
  /\ Len(generatedImages) = 2
  /\ generatedImages[1] = newImage[1] /\ generatedImages[1].createdAt = 2
  /\ generatedImages[2] = OldImage
  /\ Len(deletes) = 1 /\ deletes[1].pc = "done"

\* C30: in part_000, in every reachable state selectedImageId is null or the
\* id of a record of the history.
C30_SelectionInHistory ==
  variant = 3 =>
    \/ selectedImageId = <<>>
    \/ \E k \in 1..Len(generatedImages) : generatedImages[k].id = selectedImageId[1]

C30_Witness ==
  /\ variant = 3 /\ loaded /\ added = 1
  /\ Len(deletes) = 2 /\ deletes[1].pc # "await" /\ deletes[2].pc # "await"
  /\ generatedImages = <<newImage[1]>>
  /\ selectedImageId = <<newImage[1].id>>

====
